---- MODULE Spec2Model ----
(***************************************************************************)
(* CPU scheduling simulator: the four scheduling algorithms                *)
(*   fcfs               (algorithms/fcfs.js)                               *)
(*   sjf                (algorithms/sjf.js)                                *)
(*   priorityScheduling (algorithms/priority.js)                           *)
(*   roundRobin         (algorithms/roundRobin.js)                         *)
(* modelled as a state machine.  One behaviour is one call: Call runs the   *)
(* function's prologue, every Step/Idle/Run/Slice action is one iteration  *)
(* of its loop, and the Return actions build the returned object.          *)
(***************************************************************************)
EXTENDS Integers, Sequences, FiniteSets, TLC

\* ---------------------------------------------------------------- bounds
\* the inputs are the process lists of at most MaxProcs processes and of weight at most
\* MaxWeight, the weight of a list being its distance from the plainest list (every
\* process arrives at 0 with burst time 1 and priority 1, ids ascending): the sum of
\* the arrival times, of the burst times above 1, of the priorities above 1, and the
\* number of pairs of processes whose ids are in descending order
MaxProcs == 3
MaxWeight == 4
MaxQuantum == 2

\* termination is checked for the inputs of weight at most MaxFairWeight
MaxFairWeight == 3

\* a call of roundRobin with a quantum below 1 is followed for MaxSlices slices
MaxSlices == 4

VARIABLES
    processes,    \* the caller's input list
    algorithm,    \* which function was called: "fcfs", "sjf", "priority", "rr"
    quantum,      \* roundRobin's second parameter
    pc,           \* "idle" before the call, "run" inside the loop, "break" after roundRobin's
                  \* break, "done" after return
    currentTime,  \* let currentTime
    gantt,        \* const gantt = []
    results,      \* fcfs: const results = []
    sorted,       \* fcfs, roundRobin: const sorted (positions of the records, in sorted order)
    next,         \* fcfs: how far `for (const p of sorted)` has got (position in sorted)
    remaining,    \* sjf, priorityScheduling, roundRobin: const remaining (the copies)
    resultMap,    \* sjf, priorityScheduling: const resultMap = {}
    completed,    \* sjf, priorityScheduling: let completed
    queue,        \* roundRobin: const queue (positions in remaining)
    enqueued,     \* roundRobin: const enqueued = new Set()
    finishTime,   \* roundRobin: const finishTime = {}
    output,       \* the returned object
    appProcesses, \* App: const [processes, setProcesses] (the rows of the process table)
    appAlgorithm, \* App: const [algorithm, setAlgorithm]
    appQuantum,   \* App: const [quantum, setQuantum]
    result,       \* App: const [result, setResult]
    errors,       \* App: const [errors, setErrors]
    isRunning,    \* App: const [isRunning, setIsRunning]
    timer,        \* App: the callback handed to setTimeout and not yet run, with the
                  \* algorithm, processes and quantum of the render that made it
    edits,        \* how many times the user has changed the table or the algorithm
    mounted       \* App: whether React still holds the component (no render of it has thrown)

vars == <<processes, algorithm, quantum, pc, currentTime, gantt, results, sorted, next,
          remaining, resultMap, completed, queue, enqueued, finishTime, output,
          appProcesses, appAlgorithm, appQuantum, result, errors, isRunning, timer, edits,
          mounted>>

\* the state of the App component
app == <<appProcesses, appAlgorithm, appQuantum, result, errors, isRunning, timer, edits,
          mounted>>

\* what lies outside a call: no step of a function touches it
outside == <<app>>

\* ---------------------------------------------------------------- helpers
\* Array.prototype.sort with a comparator: stable, ascending by cmp.  The comparator
\* is given as the function cmp[a, b] over the pairs of elements of s.
SortBy(s, cmp) ==
    LET n == Len(s)
        Before(i, j) == cmp[s[i], s[j]] < 0 \/ (cmp[s[i], s[j]] = 0 /\ i < j)
        rank(j) == Cardinality({i \in 1..n : i # j /\ Before(i, j)}) + 1
    IN  [r \in 1..n |-> s[CHOOSE j \in 1..n : rank(j) = r]]

\* the positions 1..n of a list, as a list
Positions(s) == [i \in 1..Len(s) |-> i]

\* Math.min
Min(a, b) == IF a < b THEN a ELSE b

\* reading a key of an object: the value, or undefined
Undefined == [undefined |-> TRUE]
Lookup(map, key) == IF key \in DOMAIN map THEN map[key] ELSE Undefined

\* obj[key] = value
Store(map, key, value) == [x \in DOMAIN map \cup {key} |-> IF x = key THEN value ELSE map[x]]

\* p[key] = value on the i-th working record, as the caller's list shows it: a working
\* record that is the caller's own object changes in the caller's list too, a copy does not
WriteThrough(ps, shared, i, key, value) ==
    IF i \in shared THEN [ps EXCEPT ![i] = Store(ps[i], key, value)] ELSE ps

\* {} / new Set() / []
EmptyMap == [x \in {} |-> 0]

\* ---------------------------------------------------------------- records
\* { pid: p.id, start, end }
Block(p, start, end) == [pid |-> p.id, start |-> start, end |-> end]

\* { id: p.id, arrivalTime: p.arrivalTime, burstTime: p.burstTime, priority: p.priority,
\*   waitingTime, turnaroundTime }
Result(p, waitingTime, turnaroundTime) ==
    [id |-> p.id, arrivalTime |-> p.arrivalTime, burstTime |-> p.burstTime,
     priority |-> p.priority, waitingTime |-> waitingTime, turnaroundTime |-> turnaroundTime]

\* ---------------------------------------------------------------- fcfs
\* faulty variant of FcfsCmp: the id tie-break is left out
FcfsCmpNoId(a, b) == a.arrivalTime - b.arrivalTime

\* (a, b) => a.arrivalTime - b.arrivalTime || a.id - b.id
FcfsCmp(a, b) ==
    IF a.arrivalTime - b.arrivalTime # 0 THEN a.arrivalTime - b.arrivalTime ELSE a.id - b.id

\* const sorted = [...processes].sort(...)
FcfsSorted(ps) == SortBy(Positions(ps), [i, j \in 1..Len(ps) |-> FcfsCmp(ps[i], ps[j])])

\* faulty variant of FcfsStart: every process starts at its arrival, busy CPU or not
FcfsStartAtArrival(p, now) == p.arrivalTime

\* faulty variant of FcfsStart: the idle jump is left out
FcfsStartNoIdle(p, now) == now

\* if (currentTime < p.arrivalTime) currentTime = p.arrivalTime ; const start = currentTime
FcfsStart(p, now) == IF now < p.arrivalTime THEN p.arrivalTime ELSE now

\* const waitingTime = start - p.arrivalTime ; const turnaroundTime = end - p.arrivalTime
FcfsResult(p, start, end) == Result(p, start - p.arrivalTime, end - p.arrivalTime)

\* one iteration of `for (const p of sorted)`
FcfsStep ==
    /\ pc = "run" /\ algorithm = "fcfs"
    /\ next <= Len(sorted)
    /\ LET p == processes[sorted[next]]
           start == FcfsStart(p, currentTime)
           end == start + p.burstTime
       IN  /\ gantt' = Append(gantt, Block(p, start, end))
           /\ results' = Append(results, FcfsResult(p, start, end))
           /\ currentTime' = end
    /\ next' = next + 1
    /\ UNCHANGED <<processes, algorithm, quantum, pc, sorted, remaining, resultMap,
                   completed, queue, enqueued, finishTime, output>>
    /\ UNCHANGED outside

\* faulty variant of FcfsCallerList: the caller's list itself is sorted
FcfsCallerListSorted(ps) == [k \in 1..Len(ps) |-> ps[FcfsSorted(ps)[k]]]

\* the caller's list after `[...processes].sort(...)`: the sort works on a new array, the
\* caller's keeps its order
FcfsCallerList(ps) == ps

\* return { gantt, results }
FcfsOutput(g, rs) == [gantt |-> g, results |-> rs]

FcfsReturn ==
    /\ pc = "run" /\ algorithm = "fcfs"
    /\ next > Len(sorted)
    /\ output' = FcfsOutput(gantt, results)
    /\ pc' = "done"
    /\ UNCHANGED <<processes, algorithm, quantum, currentTime, gantt, results, sorted, next,
                   remaining, resultMap, completed, queue, enqueued, finishTime>>
    /\ UNCHANGED outside

\* the iterations of `for (const p of sorted)` from the k-th on, as a function of the
\* clock and of the output built so far
RECURSIVE FcfsFrom(_, _, _, _, _)
FcfsFrom(ps, srt, k, now, out) ==
    IF k > Len(srt) THEN out
    ELSE LET p == ps[srt[k]]
             start == FcfsStart(p, now)
             end == start + p.burstTime
         IN  FcfsFrom(ps, srt, k + 1, end,
                      FcfsOutput(Append(out.gantt, Block(p, start, end)),
                                 Append(out.results, FcfsResult(p, start, end))))

\* fcfs(processes) as a function of its argument
Fcfs(ps) == FcfsFrom(ps, FcfsSorted(ps), 1, 0, FcfsOutput(<<>>, <<>>))

\* ---------------------------------------------------------------- sjf
\* const remaining = processes.map(p => ({ ...p }))   (done is not set yet: falsy)
SjfCopies(ps) ==
    [i \in 1..Len(ps) |->
        [id |-> ps[i].id, arrivalTime |-> ps[i].arrivalTime, burstTime |-> ps[i].burstTime,
         priority |-> ps[i].priority, done |-> FALSE]]

\* faulty variant of SjfShared: remaining holds the caller's own records
SjfSharedAll(ps) == 1..Len(ps)

\* the positions at which remaining holds the caller's own record: none, ({ ...p }) makes a
\* new object of every p
SjfShared(ps) == {}

\* faulty variant of SjfAvailable: the arrival test is left out
SjfAvailableAll(rem, now) == SelectSeq(Positions(rem), LAMBDA i : ~rem[i].done)

\* remaining.filter(p => !p.done && p.arrivalTime <= currentTime)
SjfAvailable(rem, now) ==
    SelectSeq(Positions(rem), LAMBDA i : ~rem[i].done /\ rem[i].arrivalTime <= now)

\* faulty variant of SjfNextCmp: a and b swapped, so the sort is descending
SjfNextCmpReversed(a, b) == b.arrivalTime - a.arrivalTime

\* (a, b) => a.arrivalTime - b.arrivalTime
SjfNextCmp(a, b) == a.arrivalTime - b.arrivalTime

\* remaining.filter(p => !p.done).sort((a, b) => a.arrivalTime - b.arrivalTime)
SjfWaiting(rem) ==
    SortBy(SelectSeq(Positions(rem), LAMBDA i : ~rem[i].done),
           [i, j \in 1..Len(rem) |-> SjfNextCmp(rem[i], rem[j])])

\* faulty variant of SjfCmp: priority breaks a tie in burst time before arrival does
SjfCmpPriority(a, b) ==
    IF a.burstTime - b.burstTime # 0 THEN a.burstTime - b.burstTime
    ELSE IF a.priority - b.priority # 0 THEN a.priority - b.priority
    ELSE IF a.arrivalTime - b.arrivalTime # 0 THEN a.arrivalTime - b.arrivalTime
    ELSE a.id - b.id

\* faulty variant of SjfCmp: the arrival tie-break is left out
SjfCmpNoArrival(a, b) ==
    IF a.burstTime - b.burstTime # 0 THEN a.burstTime - b.burstTime ELSE a.id - b.id

\* (a, b) => a.burstTime - b.burstTime || a.arrivalTime - b.arrivalTime || a.id - b.id
SjfCmp(a, b) ==
    IF a.burstTime - b.burstTime # 0 THEN a.burstTime - b.burstTime
    ELSE IF a.arrivalTime - b.arrivalTime # 0 THEN a.arrivalTime - b.arrivalTime
    ELSE a.id - b.id

\* available.sort(burst, then arrival, then id) ; const p = available[0]
SjfPick(rem, available) ==
    SortBy(available, [i, j \in 1..Len(rem) |-> SjfCmp(rem[i], rem[j])])[1]

\* faulty variant of SjfResult: the times are measured from time 0, not from the arrival
SjfResultFromZero(p, start, end) == Result(p, start, end)

\* const waitingTime = start - p.arrivalTime ; const turnaroundTime = end - p.arrivalTime
SjfResult(p, start, end) == Result(p, start - p.arrivalTime, end - p.arrivalTime)

\* the loop's idle branch: no process has arrived, jump to the next arrival
SjfIdle ==
    /\ pc = "run" /\ algorithm = "sjf"
    /\ completed < Len(remaining)
    /\ Len(SjfAvailable(remaining, currentTime)) = 0
    /\ currentTime' = remaining[SjfWaiting(remaining)[1]].arrivalTime
    /\ UNCHANGED <<processes, algorithm, quantum, pc, gantt, results, sorted, next, remaining,
                   resultMap, completed, queue, enqueued, finishTime, output>>
    /\ UNCHANGED outside

\* the loop's run branch: pick a process and run it to completion
SjfRun ==
    /\ pc = "run" /\ algorithm = "sjf"
    /\ completed < Len(remaining)
    /\ Len(SjfAvailable(remaining, currentTime)) # 0
    /\ LET i == SjfPick(remaining, SjfAvailable(remaining, currentTime))
           p == remaining[i]
           start == currentTime
           end == currentTime + p.burstTime
       IN  /\ gantt' = Append(gantt, Block(p, start, end))
           /\ resultMap' = Store(resultMap, p.id, SjfResult(p, start, end))
           /\ remaining' = [remaining EXCEPT ![i].done = TRUE]
           /\ processes' = WriteThrough(processes, SjfShared(processes), i, "done", TRUE)
           /\ currentTime' = end
    /\ completed' = completed + 1
    /\ UNCHANGED <<algorithm, quantum, pc, results, sorted, next, queue, enqueued,
                   finishTime, output>>
    /\ UNCHANGED outside

\* faulty variant of SjfOutput: resultMap is read by the list index (from 0) instead of by id
SjfOutputByIndex(ps, g, rmap) ==
    [gantt |-> g, results |-> [i \in 1..Len(ps) |-> Lookup(rmap, i - 1)]]

\* const results = processes.map(p => resultMap[p.id]) ; return { gantt, results }
SjfOutput(ps, g, rmap) ==
    [gantt |-> g, results |-> [i \in 1..Len(ps) |-> Lookup(rmap, ps[i].id)]]

SjfReturn ==
    /\ pc = "run" /\ algorithm = "sjf"
    /\ ~(completed < Len(remaining))
    /\ output' = SjfOutput(processes, gantt, resultMap)
    /\ pc' = "done"
    /\ UNCHANGED <<processes, algorithm, quantum, currentTime, gantt, results, sorted, next,
                   remaining, resultMap, completed, queue, enqueued, finishTime>>
    /\ UNCHANGED outside

\* the iterations of `while (completed < n)` from a given state of the locals on, as a
\* function of those locals
RECURSIVE SjfLoop(_, _, _, _, _, _)
SjfLoop(ps, rem, done, now, g, rmap) ==
    IF ~(done < Len(rem)) THEN SjfOutput(ps, g, rmap)
    ELSE IF Len(SjfAvailable(rem, now)) = 0
         THEN SjfLoop(ps, rem, done, rem[SjfWaiting(rem)[1]].arrivalTime, g, rmap)
         ELSE LET i == SjfPick(rem, SjfAvailable(rem, now))
                  p == rem[i]
                  start == now
                  end == now + p.burstTime
              IN  SjfLoop(ps, [rem EXCEPT ![i].done = TRUE], done + 1, end,
                          Append(g, Block(p, start, end)),
                          Store(rmap, p.id, SjfResult(p, start, end)))

\* sjf(processes) as a function of its argument
Sjf(ps) == SjfLoop(ps, SjfCopies(ps), 0, 0, <<>>, EmptyMap)

\* ---------------------------------------------------------------- priority
\* const remaining = processes.map(p => ({ ...p }))   (done is not set yet: falsy)
PriorityCopies(ps) ==
    [i \in 1..Len(ps) |->
        [id |-> ps[i].id, arrivalTime |-> ps[i].arrivalTime, burstTime |-> ps[i].burstTime,
         priority |-> ps[i].priority, done |-> FALSE]]

\* the positions at which remaining holds the caller's own record: none, ({ ...p }) makes a
\* new object of every p
PriorityShared(ps) == {}

\* faulty variant of PriorityAvailable: the arrival test is left out
PriorityAvailableAll(rem, now) == SelectSeq(Positions(rem), LAMBDA i : ~rem[i].done)

\* remaining.filter(p => !p.done && p.arrivalTime <= currentTime)
PriorityAvailable(rem, now) ==
    SelectSeq(Positions(rem), LAMBDA i : ~rem[i].done /\ rem[i].arrivalTime <= now)

\* (a, b) => a.arrivalTime - b.arrivalTime
PriorityNextCmp(a, b) == a.arrivalTime - b.arrivalTime

\* remaining.filter(p => !p.done).sort((a, b) => a.arrivalTime - b.arrivalTime)
PriorityWaiting(rem) ==
    SortBy(SelectSeq(Positions(rem), LAMBDA i : ~rem[i].done),
           [i, j \in 1..Len(rem) |-> PriorityNextCmp(rem[i], rem[j])])

\* faulty variant of PriorityCmp: the arrival tie-break is left out
PriorityCmpNoArrival(a, b) ==
    IF a.priority - b.priority # 0 THEN a.priority - b.priority ELSE a.id - b.id

\* faulty variant of PriorityCmp: the priority difference taken the wrong way round
PriorityCmpReversed(a, b) ==
    IF b.priority - a.priority # 0 THEN b.priority - a.priority
    ELSE IF a.arrivalTime - b.arrivalTime # 0 THEN a.arrivalTime - b.arrivalTime
    ELSE a.id - b.id

\* (a, b) => a.priority - b.priority || a.arrivalTime - b.arrivalTime || a.id - b.id
PriorityCmp(a, b) ==
    IF a.priority - b.priority # 0 THEN a.priority - b.priority
    ELSE IF a.arrivalTime - b.arrivalTime # 0 THEN a.arrivalTime - b.arrivalTime
    ELSE a.id - b.id

\* available.sort(priority, then arrival, then id) ; const p = available[0]
PriorityPick(rem, available) ==
    SortBy(available, [i, j \in 1..Len(rem) |-> PriorityCmp(rem[i], rem[j])])[1]

\* const waitingTime = start - p.arrivalTime ; const turnaroundTime = end - p.arrivalTime
PriorityResult(p, start, end) == Result(p, start - p.arrivalTime, end - p.arrivalTime)

\* the loop's idle branch: no process has arrived, jump to the next arrival
PriorityIdle ==
    /\ pc = "run" /\ algorithm = "priority"
    /\ completed < Len(remaining)
    /\ Len(PriorityAvailable(remaining, currentTime)) = 0
    /\ currentTime' = remaining[PriorityWaiting(remaining)[1]].arrivalTime
    /\ UNCHANGED <<processes, algorithm, quantum, pc, gantt, results, sorted, next, remaining,
                   resultMap, completed, queue, enqueued, finishTime, output>>
    /\ UNCHANGED outside

\* the loop's run branch: pick a process and run it to completion
PriorityRun ==
    /\ pc = "run" /\ algorithm = "priority"
    /\ completed < Len(remaining)
    /\ Len(PriorityAvailable(remaining, currentTime)) # 0
    /\ LET i == PriorityPick(remaining, PriorityAvailable(remaining, currentTime))
           p == remaining[i]
           start == currentTime
           end == currentTime + p.burstTime
       IN  /\ gantt' = Append(gantt, Block(p, start, end))
           /\ resultMap' = Store(resultMap, p.id, PriorityResult(p, start, end))
           /\ remaining' = [remaining EXCEPT ![i].done = TRUE]
           /\ processes' = WriteThrough(processes, PriorityShared(processes), i, "done", TRUE)
           /\ currentTime' = end
    /\ completed' = completed + 1
    /\ UNCHANGED <<algorithm, quantum, pc, results, sorted, next, queue, enqueued,
                   finishTime, output>>
    /\ UNCHANGED outside

\* faulty variant of StarvationRisk: every result, not some result, has to have waited long
StarvationRiskEvery(rmap) ==
    \A id \in DOMAIN rmap : rmap[id].waitingTime > 3 * rmap[id].burstTime

\* faulty variant of StarvationRisk: waiting exactly three bursts counts too
StarvationRiskFromThree(rmap) ==
    \E id \in DOMAIN rmap : rmap[id].waitingTime >= 3 * rmap[id].burstTime

\* Object.values(resultMap).some(r => r.waitingTime > 3 * r.burstTime)
StarvationRisk(rmap) == \E id \in DOMAIN rmap : rmap[id].waitingTime > 3 * rmap[id].burstTime

\* const results = processes.map(p => resultMap[p.id]) ; return { gantt, results, starvationRisk }
PriorityOutput(ps, g, rmap) ==
    [gantt |-> g, results |-> [i \in 1..Len(ps) |-> Lookup(rmap, ps[i].id)],
     starvationRisk |-> StarvationRisk(rmap)]

PriorityReturn ==
    /\ pc = "run" /\ algorithm = "priority"
    /\ ~(completed < Len(remaining))
    /\ output' = PriorityOutput(processes, gantt, resultMap)
    /\ pc' = "done"
    /\ UNCHANGED <<processes, algorithm, quantum, currentTime, gantt, results, sorted, next,
                   remaining, resultMap, completed, queue, enqueued, finishTime>>
    /\ UNCHANGED outside

\* the iterations of `while (completed < n)` from a given state of the locals on, as a
\* function of those locals
RECURSIVE PriorityLoop(_, _, _, _, _, _)
PriorityLoop(ps, rem, done, now, g, rmap) ==
    IF ~(done < Len(rem)) THEN PriorityOutput(ps, g, rmap)
    ELSE IF Len(PriorityAvailable(rem, now)) = 0
         THEN PriorityLoop(ps, rem, done, rem[PriorityWaiting(rem)[1]].arrivalTime, g, rmap)
         ELSE LET i == PriorityPick(rem, PriorityAvailable(rem, now))
                  p == rem[i]
                  start == now
                  end == now + p.burstTime
              IN  PriorityLoop(ps, [rem EXCEPT ![i].done = TRUE], done + 1, end,
                               Append(g, Block(p, start, end)),
                               Store(rmap, p.id, PriorityResult(p, start, end)))

\* priorityScheduling(processes) as a function of its argument
PriorityScheduling(ps) == PriorityLoop(ps, PriorityCopies(ps), 0, 0, <<>>, EmptyMap)

\* ---------------------------------------------------------------- roundRobin
\* const remaining = processes.map(p => ({ ...p, remainingTime: p.burstTime, firstRun: -1 }))
RrCopies(ps) ==
    [i \in 1..Len(ps) |->
        [id |-> ps[i].id, arrivalTime |-> ps[i].arrivalTime, burstTime |-> ps[i].burstTime,
         priority |-> ps[i].priority, remainingTime |-> ps[i].burstTime, firstRun |-> -1]]

\* the positions at which remaining holds the caller's own record: none,
\* ({ ...p, remainingTime, firstRun }) makes a new object of every p
RrShared(ps) == {}

\* faulty variant of RrCmp: the id tie-break is left out
RrCmpNoId(a, b) == a.arrivalTime - b.arrivalTime

\* (a, b) => a.arrivalTime - b.arrivalTime || a.id - b.id
RrCmp(a, b) ==
    IF a.arrivalTime - b.arrivalTime # 0 THEN a.arrivalTime - b.arrivalTime ELSE a.id - b.id

\* const sorted = [...remaining].sort(...)
RrSorted(rem) == SortBy(Positions(rem), [i, j \in 1..Len(rem) |-> RrCmp(rem[i], rem[j])])

\* faulty variant of RrArrived: the enqueued set is not consulted
RrArrivedNoSet(p, enq, afterSlice, start, now) ==
    /\ afterSlice => p.arrivalTime > start
    /\ p.arrivalTime <= now

\* faulty variant of RrArrived: after a slice, an arrival exactly at the slice's end is not taken
RrArrivedStrict(p, enq, afterSlice, start, now) ==
    /\ IF afterSlice THEN p.arrivalTime > start /\ p.arrivalTime < now
       ELSE p.arrivalTime <= now
    /\ p.id \notin enq

\* the test of the three enqueue loops:
\*   p.arrivalTime <= currentTime && !enqueued.has(p.id)                       (start, idle)
\*   proc.arrivalTime > start && proc.arrivalTime <= currentTime && !enqueued  (after a slice)
RrArrived(p, enq, afterSlice, start, now) ==
    /\ afterSlice => p.arrivalTime > start
    /\ p.arrivalTime <= now
    /\ p.id \notin enq

\* for (const p of sorted) { if (...) { queue.push(p) ; enqueued.add(p.id) } }
RECURSIVE RrEnqueue(_, _, _, _, _, _, _)
RrEnqueue(srt, rem, q, enq, afterSlice, start, now) ==
    IF Len(srt) = 0 THEN [queue |-> q, enqueued |-> enq]
    ELSE LET i == Head(srt)
         IN  IF RrArrived(rem[i], enq, afterSlice, start, now)
             THEN RrEnqueue(Tail(srt), rem, Append(q, i), enq \cup {rem[i].id},
                            afterSlice, start, now)
             ELSE RrEnqueue(Tail(srt), rem, q, enq, afterSlice, start, now)

\* faulty variant of RrLoopTest: the length of the queue is not tested
RrLoopTestNoQueue(q, rem, enq) ==
    \E i \in 1..Len(rem) : rem[i].remainingTime > 0 /\ rem[i].id \notin enq

\* faulty variant of RrLoopTest: the processes still to arrive are forgotten
RrLoopTestQueueOnly(q, rem, enq) == Len(q) > 0

\* queue.length > 0 || remaining.some(p => p.remainingTime > 0 && !enqueued.has(p.id))
RrLoopTest(q, rem, enq) ==
    Len(q) > 0 \/ \E i \in 1..Len(rem) : rem[i].remainingTime > 0 /\ rem[i].id \notin enq

\* faulty variant of RrNextCmp: the idle jump goes to the latest arrival
RrNextCmpReversed(a, b) == b.arrivalTime - a.arrivalTime

\* (a, b) => a.arrivalTime - b.arrivalTime
RrNextCmp(a, b) == a.arrivalTime - b.arrivalTime

\* sorted.filter(p => !enqueued.has(p.id)).sort((a, b) => a.arrivalTime - b.arrivalTime)
RrNotEnqueued(srt, rem, enq) ==
    SortBy(SelectSeq(srt, LAMBDA i : rem[i].id \notin enq),
           [i, j \in 1..Len(rem) |-> RrNextCmp(rem[i], rem[j])])

\* faulty variant of RrExecTime: a slice may last two quanta
RrExecTimeDouble(q, p) == Min(2 * q, p.remainingTime)

\* faulty variant of RrExecTime: every slice lasts a whole quantum
RrExecTimeQuantum(q, p) == q

\* faulty variant of RrExecTime: the head of the queue runs to completion
RrExecTimeAll(q, p) == p.remainingTime

\* Math.min(quantum, p.remainingTime)
RrExecTime(q, p) == Min(q, p.remainingTime)

\* the loop's idle branch: the queue is empty
RrIdle ==
    /\ pc = "run" /\ algorithm = "rr"
    /\ RrLoopTest(queue, remaining, enqueued)
    /\ Len(queue) = 0
    /\ LET waiting == RrNotEnqueued(sorted, remaining, enqueued)
       IN  IF Len(waiting) = 0
           THEN \* if (!nextArrival) break
                /\ pc' = "break"
                /\ UNCHANGED <<currentTime, queue, enqueued>>
           ELSE LET now == remaining[waiting[1]].arrivalTime
                    e == RrEnqueue(sorted, remaining, queue, enqueued, FALSE, 0, now)
                IN  /\ currentTime' = now
                    /\ queue' = e.queue
                    /\ enqueued' = e.enqueued
                    /\ pc' = pc
    /\ UNCHANGED <<processes, algorithm, quantum, gantt, results, sorted, next, remaining,
                   resultMap, completed, finishTime, output>>
    /\ UNCHANGED outside

\* the loop's run branch: one time slice of the head of the queue
RrSlice ==
    /\ pc = "run" /\ algorithm = "rr"
    /\ RrLoopTest(queue, remaining, enqueued)
    /\ Len(queue) # 0
    /\ LET i == Head(queue)
           p == remaining[i]
           execTime == RrExecTime(quantum, p)
           start == currentTime
           end == currentTime + execTime
           left == p.remainingTime - execTime
           e == RrEnqueue(sorted, remaining, Tail(queue), enqueued, TRUE, start, end)
       IN  /\ gantt' = Append(gantt, Block(p, start, end))
           /\ remaining' = [remaining EXCEPT ![i].remainingTime = left]
           /\ processes' = WriteThrough(processes, RrShared(processes), i, "remainingTime", left)
           /\ currentTime' = end
           /\ enqueued' = e.enqueued
           /\ IF left > 0
              THEN queue' = Append(e.queue, i) /\ finishTime' = finishTime
              ELSE queue' = e.queue /\ finishTime' = Store(finishTime, p.id, end)
    /\ UNCHANGED <<algorithm, quantum, pc, results, sorted, next, resultMap,
                   completed, output>>
    /\ UNCHANGED outside

\* faulty variant of RrFinish: the final clock is taken for every process
RrFinishNow(ft, id, now) == now

\* finishTime[p.id] ?? currentTime
RrFinish(ft, id, now) == IF id \in DOMAIN ft THEN ft[id] ELSE now

\* faulty variant of RrResult: waitingTime is taken from the finish time, not from turnaroundTime
RrResultNoArrival(p, ft) == Result(p, ft - p.burstTime, ft - p.arrivalTime)

\* const turnaroundTime = ft - p.arrivalTime ; const waitingTime = turnaroundTime - p.burstTime
RrResult(p, ft) ==
    LET turnaroundTime == ft - p.arrivalTime
        waitingTime == turnaroundTime - p.burstTime
    IN  Result(p, waitingTime, turnaroundTime)

\* faulty variant of RrOutput: a starvationRisk field, false, is returned too
RrOutputWithFlag(ps, g, ft, now) ==
    [gantt |-> g,
     results |-> [i \in 1..Len(ps) |-> RrResult(ps[i], RrFinish(ft, ps[i].id, now))],
     starvationRisk |-> FALSE]

\* const results = processes.map(p => { ... }) ; return { gantt, results }
RrOutput(ps, g, ft, now) ==
    [gantt |-> g,
     results |-> [i \in 1..Len(ps) |-> RrResult(ps[i], RrFinish(ft, ps[i].id, now))]]

RrReturn ==
    /\ algorithm = "rr"
    /\ pc = "break" \/ (pc = "run" /\ ~RrLoopTest(queue, remaining, enqueued))
    /\ output' = RrOutput(processes, gantt, finishTime, currentTime)
    /\ pc' = "done"
    /\ UNCHANGED <<processes, algorithm, quantum, currentTime, gantt, results, sorted, next,
                   remaining, resultMap, completed, queue, enqueued, finishTime>>
    /\ UNCHANGED outside

\* the iterations of roundRobin's while loop from a given state of the locals on, as a
\* function of those locals
RECURSIVE RrLoop(_, _, _, _, _, _, _, _, _)
RrLoop(ps, qt, rem, srt, q, enq, ft, now, g) ==
    IF ~RrLoopTest(q, rem, enq) THEN RrOutput(ps, g, ft, now)
    ELSE IF Len(q) = 0
         THEN LET waiting == RrNotEnqueued(srt, rem, enq)
              IN  IF Len(waiting) = 0 THEN RrOutput(ps, g, ft, now)
                  ELSE LET jump == rem[waiting[1]].arrivalTime
                           e == RrEnqueue(srt, rem, q, enq, FALSE, 0, jump)
                       IN  RrLoop(ps, qt, rem, srt, e.queue, e.enqueued, ft, jump, g)
         ELSE LET i == Head(q)
                  p == rem[i]
                  execTime == RrExecTime(qt, p)
                  start == now
                  end == now + execTime
                  left == p.remainingTime - execTime
                  e == RrEnqueue(srt, rem, Tail(q), enq, TRUE, start, end)
              IN  RrLoop(ps, qt, [rem EXCEPT ![i].remainingTime = left], srt,
                         IF left > 0 THEN Append(e.queue, i) ELSE e.queue,
                         e.enqueued,
                         IF left > 0 THEN ft ELSE Store(ft, p.id, end),
                         end, Append(g, Block(p, start, end)))

\* roundRobin(processes, quantum) as a function of its arguments
RoundRobin(ps, qt) ==
    LET rem == RrCopies(ps)
        srt == RrSorted(rem)
        e == RrEnqueue(srt, rem, <<>>, {}, FALSE, 0, 0)
    IN  RrLoop(ps, qt, rem, srt, e.queue, e.enqueued, EmptyMap, 0, <<>>)

\* ---------------------------------------------------------------- the calls
\* const DEFAULT_PROCESSES: the process list the application starts with
DEFAULT_PROCESSES ==
    << [id |-> 1, arrivalTime |-> 0, burstTime |-> 5, priority |-> 2],
       [id |-> 2, arrivalTime |-> 2, burstTime |-> 3, priority |-> 1],
       [id |-> 3, arrivalTime |-> 4, burstTime |-> 8, priority |-> 3],
       [id |-> 4, arrivalTime |-> 6, burstTime |-> 2, priority |-> 1] >>

\* what a process adds to the weight of its list
ShapeWeight(r) == r.arrivalTime + (r.burstTime - 1) + (r.priority - 1)

\* the valid processes (arrivalTime >= 0, burstTime >= 1, priority >= 1), id left out,
\* of weight at most b, for every b
Shapes ==
    [b \in 0..MaxWeight |->
        {r \in [arrivalTime : 0..b, burstTime : 1..b + 1, priority : 1..b + 1] :
            ShapeWeight(r) <= b}]

\* the lists of n such processes of total weight at most MaxWeight, each list paired
\* with its weight
RECURSIVE ShapeLists(_)
ShapeLists(n) ==
    IF n = 0 THEN {<< <<>>, 0 >>}
    ELSE UNION {{<<Append(lw[1], r), lw[2] + ShapeWeight(r)>> : r \in Shapes[MaxWeight - lw[2]]} :
                    lw \in ShapeLists(n - 1)}

\* the number of pairs of positions whose ids are in descending order
Inversions(f) ==
    Cardinality({x \in (DOMAIN f) \X (DOMAIN f) : x[1] < x[2] /\ f[x[1]] > f[x[2]]})

\* the ways to give n processes the unique ids 1..n, for every n up to MaxProcs, each
\* paired with its number of inversions
IdOrders ==
    UNION {{<<f, Inversions(f)>> :
                f \in {g \in [1..n -> 1..n] : \A i, j \in 1..n : i # j => g[i] # g[j]}} :
            n \in 0..MaxProcs}

\* the ways to give n processes the unique ids 1..n with at most b pairs in descending order
IdLists(n, b) == {fk[1] : fk \in {x \in IdOrders : DOMAIN x[1] = 1..n /\ x[2] <= b}}

\* the process list with the shapes l and the ids f
Input(l, f) ==
    [i \in 1..Len(l) |-> [id |-> f[i], arrivalTime |-> l[i].arrivalTime,
                          burstTime |-> l[i].burstTime, priority |-> l[i].priority]]

\* `let x = init` / `const x = init` inside a function: every call has a variable of its
\* own, set to init whatever an earlier call left
FreshLocal(old, init) == init

\* the function alg is entered with the caller's list (roundRobin with the quantum qt),
\* runs its prologue and reaches its loop
Prologue(alg, qt) ==
    /\ LET rem == RrCopies(processes)
           srt == RrSorted(rem)
           e == RrEnqueue(srt, rem, <<>>, {}, FALSE, 0, 0)
       IN   /\ algorithm' = alg
            /\ quantum' = qt
            /\ processes' = (IF alg = "fcfs" THEN FcfsCallerList(processes) ELSE processes)
            /\ remaining' = CASE alg = "sjf" -> SjfCopies(processes)
                              [] alg = "priority" -> PriorityCopies(processes)
                              [] alg = "rr" -> rem
                              [] OTHER -> <<>>
            /\ sorted' = CASE alg = "fcfs" -> FcfsSorted(processes)
                           [] alg = "rr" -> srt
                           [] OTHER -> <<>>
            /\ queue' = (IF alg = "rr" THEN e.queue ELSE <<>>)
            /\ enqueued' = (IF alg = "rr" THEN e.enqueued ELSE {})
    /\ pc' = "run"
    /\ currentTime' = FreshLocal(currentTime, 0)
    /\ gantt' = FreshLocal(gantt, <<>>)
    /\ results' = FreshLocal(results, <<>>)
    /\ next' = FreshLocal(next, 1)
    /\ resultMap' = FreshLocal(resultMap, EmptyMap)
    /\ completed' = FreshLocal(completed, 0)
    /\ finishTime' = FreshLocal(finishTime, EmptyMap)
    /\ UNCHANGED output
    /\ UNCHANGED outside

\* the application's runAlgorithm hands the list to the chosen function, roundRobin with
\* a quantum >= 1
Call ==
    /\ pc = "idle"
    /\ \E c \in ({"fcfs", "sjf", "priority"} \X {0}) \cup ({"rr"} \X (1..MaxQuantum)) :
        Prologue(c[1], c[2])

\* the quanta below 1 that roundRobin is called with
NonPositiveQuanta == {-1, 0}

\* roundRobin is called directly with a quantum below 1
CallNonPositive ==
    /\ pc = "idle"
    /\ \E qt \in NonPositiveQuanta : Prologue("rr", qt)

\* one time slice, as long as the timeline has fewer than MaxSlices intervals
RrSliceCapped ==
    /\ Len(gantt) < MaxSlices
    /\ RrSlice

\* ---------------------------------------------------------------- the application
\* null
Null == [null |-> TRUE]

\* what a number field of the table holds after an edit: the empty string, or a number n,
\* written <<n>>
Empty == <<>>

\* the texts the user leaves in a number field
Texts == {"", "-1", "0", "1", "2"}

\* Number(value) for the texts of Texts
Number(value) ==
    CASE value = "" -> 0
      [] value = "-1" -> -1
      [] value = "0" -> 0
      [] value = "1" -> 1
      [] value = "2" -> 2

\* const parsed = value === '' ? '' : Number(value)
Parsed(value) == IF value = "" THEN Empty ELSE <<Number(value)>>

\* the number a field's value stands for in <, <=, > and -: the empty string is 0
ToNumber(v) == IF v = Empty THEN 0 ELSE v[1]

\* a row of the table: the id is a number, the other fields are what an edit left
Row(p) ==
    [id |-> p.id, arrivalTime |-> <<p.arrivalTime>>, burstTime |-> <<p.burstTime>>,
     priority |-> <<p.priority>>]

\* the record the algorithms compute with when they are handed a row that validate lets
\* through: its burstTime is a number (validate rejects '', and `currentTime + ''` would be
\* a string, not a sum), its arrivalTime and priority are only compared and subtracted,
\* where '' is 0
Operand(row) ==
    [id |-> row.id, arrivalTime |-> ToNumber(row.arrivalTime),
     burstTime |-> row.burstTime[1], priority |-> ToNumber(row.priority)]

\* the three tests of validate on one process, in the order of the code
ValidateProcess(p) ==
    (IF ToNumber(p.arrivalTime) < 0 THEN << <<p.id, "Arrival time cannot be negative.">> >>
     ELSE <<>>)
    \o (IF ToNumber(p.burstTime) <= 0
        THEN << <<p.id, "Burst time must be greater than 0.">> >> ELSE <<>>)
    \o (IF ToNumber(p.priority) < 1 THEN << <<p.id, "Priority must be >= 1.">> >> ELSE <<>>)

\* validate(processes): the errors of the processes from the k-th on
RECURSIVE ValidateFrom(_, _)
ValidateFrom(ps, k) ==
    IF k > Len(ps) THEN <<>> ELSE ValidateProcess(ps[k]) \o ValidateFrom(ps, k + 1)

\* validate(processes)
Validate(ps) == ValidateFrom(ps, 1)

\* the result records of an algorithm carry the fields of the process as the row holds them
Echo(o, ps) ==
    [o EXCEPT !.results =
        [k \in DOMAIN o.results |->
            LET r == o.results[k]
                i == CHOOSE j \in 1..Len(ps) : ps[j].id = r.id
            IN  [r EXCEPT !.arrivalTime = ps[i].arrivalTime, !.burstTime = ps[i].burstTime,
                          !.priority = ps[i].priority]]]

\* runAlgorithm(algorithm, processes, quantum), for the lists the App calls it with: those
\* for which validate has returned no error
RunAlgorithm(alg, ps, qt) ==
    LET operands == [i \in 1..Len(ps) |-> Operand(ps[i])]
    IN  CASE alg = "fcfs" -> Echo(Fcfs(operands), ps)
          [] alg = "sjf" -> Echo(Sjf(operands), ps)
          [] alg = "priority" -> Echo(PriorityScheduling(operands), ps)
          [] alg = "rr" -> Echo(RoundRobin(operands, qt), ps)
          [] OTHER -> [gantt |-> <<>>, results |-> <<>>]

\* the rows of the table for DEFAULT_PROCESSES
DefaultRows == [i \in 1..Len(DEFAULT_PROCESSES) |-> Row(DEFAULT_PROCESSES[i])]

\* the App component with the initial value of every state but the table's rows
Rendered(rows) ==
    /\ appProcesses = rows
    /\ appAlgorithm = "fcfs"
    /\ appQuantum = 2
    /\ result = Null
    /\ errors = <<>>
    /\ isRunning = FALSE
    /\ timer = Undefined
    /\ edits = 0
    /\ mounted = TRUE

\* the App component as first rendered
Mounted == Rendered(DefaultRows)

\* GanttChart, rendered with the result's gantt and the table's rows when a result is
\* displayed, throws: colorMap has an entry for the id of every row, and `grad.from` is
\* read for the pid of every block, so a block of a process that the table no longer holds
\* has grad undefined
GanttChartThrows(res, rows) ==
    /\ res # Null
    /\ \E k \in 1..Len(res.gantt) : \A i \in 1..Len(rows) : rows[i].id # res.gantt[k].pid

\* the render of the App after a handler has set its state: if GanttChart throws, no error
\* boundary catches it and React discards the App
Rerender == mounted' = ~GanttChartThrows(result', appProcesses')

\* the user makes at most MaxEdits changes to the table and the algorithm
MaxEdits == 2

\* the plus button is pressed as long as the quantum is below MaxAppQuantum
MaxAppQuantum == 3

\* one more change by the user
Edit ==
    /\ edits < MaxEdits
    /\ edits' = edits + 1

\* the calls of the functions made by a caller other than the App: no handler of the App
\* touches them
calls == <<processes, algorithm, quantum, pc, currentTime, gantt, results, sorted, next,
           remaining, resultMap, completed, queue, enqueued, finishTime, output>>

\* ProcessTable's setProcesses: p => { setProcesses(p); setResult(null) }
SetProcesses(ps) ==
    /\ appProcesses' = ps
    /\ result' = Null

\* the columns of the table: Priority is shown for the priority algorithm only
Columns == {"arrivalTime", "burstTime"} \cup (IF appAlgorithm = "priority" THEN {"priority"} ELSE {})

\* ProcessTable.update(index, field, value), from the onChange of a number field
Update ==
    /\ mounted
    /\ Edit
    /\ \E index \in 1..Len(appProcesses) : \E field \in Columns : \E value \in Texts :
        SetProcesses([appProcesses EXCEPT ![index] = Store(@, field, Parsed(value))])
    /\ UNCHANGED <<appAlgorithm, appQuantum, errors, isRunning, timer>>
    /\ UNCHANGED calls
    /\ Rerender

\* Math.max(...processes.map(p => p.id))
MaxId(ps) == CHOOSE m \in {ps[i].id : i \in 1..Len(ps)} : \A i \in 1..Len(ps) : ps[i].id <= m

\* faulty variant of NextId: the number of rows, plus one
NextIdFromLength(ps) == Len(ps) + 1

\* const nextId = processes.length > 0 ? Math.max(...processes.map(p => p.id)) + 1 : 1
NextId(ps) == IF Len(ps) > 0 THEN MaxId(ps) + 1 ELSE 1

\* ProcessTable.addRow()
AddRow ==
    /\ mounted
    /\ Edit
    /\ SetProcesses(Append(appProcesses,
                           [id |-> NextId(appProcesses), arrivalTime |-> <<0>>,
                            burstTime |-> <<1>>, priority |-> <<1>>]))
    /\ UNCHANGED <<appAlgorithm, appQuantum, errors, isRunning, timer>>
    /\ UNCHANGED calls
    /\ Rerender

\* processes.filter((_, i) => i !== index)
Without(ps, index) == [k \in 1..Len(ps) - 1 |-> ps[IF k < index THEN k ELSE k + 1]]

\* faulty variant of RemoveRowReturns: the last row can be removed
RemoveRowReturnsOnEmpty(ps) == Len(ps) <= 0

\* if (processes.length <= 1) return     (and the button's disabled={processes.length <= 1})
RemoveRowReturns(ps) == Len(ps) <= 1

\* ProcessTable.removeRow(index): the button is disabled, and the function returns at once,
\* when one row is left
RemoveRow ==
    /\ mounted
    /\ Edit
    /\ ~RemoveRowReturns(appProcesses)
    /\ \E index \in 1..Len(appProcesses) :
        SetProcesses(Without(appProcesses, index))
    /\ UNCHANGED <<appAlgorithm, appQuantum, errors, isRunning, timer>>
    /\ UNCHANGED calls
    /\ Rerender

\* Math.max
Max(a, b) == IF a > b THEN a ELSE b

\* AlgorithmSelector's setAlgorithm: alg => { setAlgorithm(alg); setResult(null); setErrors([]) }
SetAlgorithm ==
    /\ mounted
    /\ Edit
    /\ \E alg \in {"fcfs", "sjf", "priority", "rr"} : appAlgorithm' = alg
    /\ result' = Null
    /\ errors' = <<>>
    /\ UNCHANGED <<appProcesses, appQuantum, isRunning, timer>>
    /\ UNCHANGED calls
    /\ Rerender

\* faulty variant of Decremented: the lower limit is not applied
DecrementedUnclamped(q) == q - 1

\* q => Math.max(1, q - 1)
Decremented(q) == Max(1, q - 1)

\* the quantum's minus button, shown for round robin: setQuantum(q => Math.max(1, q - 1))
QuantumDown ==
    /\ mounted
    /\ appAlgorithm = "rr"
    /\ appQuantum' = Decremented(appQuantum)
    /\ UNCHANGED <<appProcesses, appAlgorithm, result, errors, isRunning, timer, edits>>
    /\ UNCHANGED calls
    /\ Rerender

\* the quantum's number field: setQuantum(Math.max(1, Number(e.target.value)))
QuantumTyped ==
    /\ mounted
    /\ appAlgorithm = "rr"
    /\ \E value \in Texts : appQuantum' = Max(1, Number(value))
    /\ UNCHANGED <<appProcesses, appAlgorithm, result, errors, isRunning, timer, edits>>
    /\ UNCHANGED calls
    /\ Rerender

\* the quantum's plus button: setQuantum(q => q + 1)
QuantumUp ==
    /\ mounted
    /\ appAlgorithm = "rr"
    /\ appQuantum < MaxAppQuantum
    /\ appQuantum' = appQuantum + 1
    /\ UNCHANGED <<appProcesses, appAlgorithm, result, errors, isRunning, timer, edits>>
    /\ UNCHANGED calls
    /\ Rerender

\* handleSimulate, from the click on the run button, which is disabled while isRunning
HandleSimulate ==
    /\ mounted
    /\ ~isRunning
    /\ LET errs == Validate(appProcesses)
       IN  IF Len(errs) # 0
           THEN /\ errors' = errs
                /\ result' = Null
                /\ UNCHANGED <<isRunning, timer>>
           ELSE /\ errors' = <<>>
                /\ isRunning' = TRUE
                /\ timer' = [algorithm |-> appAlgorithm, processes |-> appProcesses,
                             quantum |-> appQuantum]
                /\ UNCHANGED result
    /\ UNCHANGED <<appProcesses, appAlgorithm, appQuantum, edits>>
    /\ UNCHANGED calls
    /\ Rerender

\* the callback of setTimeout, 120 ms after handleSimulate
TimerFires ==
    /\ mounted
    /\ timer # Undefined
    /\ result' = RunAlgorithm(timer.algorithm, timer.processes, timer.quantum)
    /\ isRunning' = FALSE
    /\ timer' = Undefined
    /\ UNCHANGED <<appProcesses, appAlgorithm, appQuantum, errors, edits>>
    /\ UNCHANGED calls
    /\ Rerender

\* before the call: the caller holds a process list and nothing has run
NoCall(ps) ==
    /\ processes = ps
    /\ algorithm = "none"
    /\ quantum = 0
    /\ pc = "idle"
    /\ currentTime = 0
    /\ gantt = <<>>
    /\ results = <<>>
    /\ next = 1
    /\ resultMap = EmptyMap
    /\ completed = 0
    /\ finishTime = EmptyMap
    /\ output = Undefined
    /\ remaining = <<>>
    /\ sorted = <<>>
    /\ queue = <<>>
    /\ enqueued = {}

\* the same, with the App as first rendered
Idle(ps) ==
    /\ NoCall(ps)
    /\ Mounted

\* the caller holds a valid input within the bounds (unique ids, arrival >= 0, burst >= 1,
\* priority >= 1), or the application's default list
Init ==
    \/ \E n \in 0..MaxProcs : \E lw \in ShapeLists(n) : \E f \in IdLists(n, MaxWeight - lw[2]) :
        Idle(Input(lw[1], f))
    \/ Idle(DEFAULT_PROCESSES)

Next ==
    \/ Call
    \/ FcfsStep
    \/ FcfsReturn
    \/ SjfIdle
    \/ SjfRun
    \/ SjfReturn
    \/ PriorityIdle
    \/ PriorityRun
    \/ PriorityReturn
    \/ RrIdle
    \/ RrSlice
    \/ RrReturn

Spec == Init /\ [][Next]_vars

NextNonPositive ==
    \/ CallNonPositive
    \/ RrIdle
    \/ RrSliceCapped
    \/ RrReturn

\* the calls of roundRobin with a quantum below 1, followed for MaxSlices slices
SpecNonPositive == Init /\ [][NextNonPositive]_vars

\* the caller holds a valid input of weight at most MaxFairWeight, or the default list
InitFair ==
    \/ \E n \in 0..MaxProcs : \E lw \in {x \in ShapeLists(n) : x[2] <= MaxFairWeight} :
        \E f \in IdLists(n, MaxFairWeight - lw[2]) : Idle(Input(lw[1], f))
    \/ Idle(DEFAULT_PROCESSES)

\* a call in progress goes on: the functions are synchronous and nothing interrupts them
SpecFair == InitFair /\ [][Next]_vars /\ WF_vars(Next)

\* the App as first rendered, no function called by anyone else
InitApp == Idle(DEFAULT_PROCESSES)

NextApp ==
    \/ Update
    \/ AddRow
    \/ RemoveRow
    \/ SetAlgorithm
    \/ QuantumDown
    \/ QuantumTyped
    \/ QuantumUp
    \/ HandleSimulate
    \/ TimerFires

\* the user's edits and clicks on the App, and its timer
SpecApp == InitApp /\ [][NextApp]_vars

\* the rows of ps at the positions of S, in the order of ps
Sublist(ps, S) == SelectSeq(ps, LAMBDA p : \E i \in S : ps[i] = p)

\* the App with the default table, or with what removeRow leaves of it after the rows
\* outside some positions have been removed one by one
InitTable ==
    /\ NoCall(DEFAULT_PROCESSES)
    /\ \E S \in SUBSET (1..Len(DefaultRows)) : S # {} /\ Rendered(Sublist(DefaultRows, S))

NextTable ==
    \/ Update
    \/ AddRow
    \/ RemoveRow
    \/ HandleSimulate
    \/ TimerFires

\* the edits of the table, and the runs on it
SpecTable == InitTable /\ [][NextTable]_vars

\* ================================================================ properties
Returned == pc = "done"
N == Len(processes)
Ids == {processes[i].id : i \in 1..N}
ProcOf(id) == processes[CHOOSE i \in 1..N : processes[i].id = id]
ResultFields == {"id", "arrivalTime", "burstTime", "priority", "waitingTime", "turnaroundTime"}
IsResult(r) == DOMAIN r = ResultFields
InputSortedByArrival == \A i \in 1..N - 1 : processes[i].arrivalTime <= processes[i + 1].arrivalTime

\* C1: the returned results hold exactly one entry per input process, with the
\* process's id, arrivalTime, burstTime and priority; no entry is missing,
\* duplicated or undefined.
C1_OneResultPerProcess ==
    Returned =>
        LET rs == output.results
        IN  /\ Len(rs) = N
            /\ \A k \in 1..Len(rs) : IsResult(rs[k])
            /\ \A i \in 1..N :
                LET mine == {k \in 1..Len(rs) : IsResult(rs[k]) /\ rs[k].id = processes[i].id}
                IN  /\ Cardinality(mine) = 1
                    /\ \A k \in mine :
                        /\ rs[k].arrivalTime = processes[i].arrivalTime
                        /\ rs[k].burstTime = processes[i].burstTime
                        /\ rs[k].priority = processes[i].priority

\* a call has returned for three processes given out of arrival order and out of id order
C1_Witness ==
    /\ Returned /\ N = 3 /\ algorithm = "sjf"
    /\ processes[1].arrivalTime > processes[3].arrivalTime
    /\ processes[1].id > processes[2].id
    /\ {output.results[k].id : k \in 1..3} = Ids

\* C2: the i-th result describes the i-th process of the input list.
C2_ResultsInInputOrder ==
    Returned =>
        /\ Len(output.results) = N
        /\ \A i \in 1..N : IsResult(output.results[i]) /\ output.results[i].id = processes[i].id

\* C3: every interval has start < end, and consecutive intervals do not overlap
\* and are in start order: end_i <= start_{i+1}.
C3_TimelineOrdered ==
    Returned =>
        LET g == output.gantt
        IN  /\ \A k \in 1..Len(g) : g[k].start < g[k].end
            /\ \A k \in 1..Len(g) - 1 : g[k].end <= g[k + 1].start

\* a returned timeline with an idle gap and with two back-to-back intervals
C3_Witness ==
    /\ Returned /\ Len(output.gantt) >= 3
    /\ \E k \in 1..Len(output.gantt) - 1 : output.gantt[k].end < output.gantt[k + 1].start
    /\ \E k \in 1..Len(output.gantt) - 1 : output.gantt[k].end = output.gantt[k + 1].start

\* C4: no interval of a process starts before the process's arrival time.
C4_NotBeforeArrival ==
    Returned =>
        \A k \in 1..Len(output.gantt) :
            /\ output.gantt[k].pid \in Ids
            /\ output.gantt[k].start >= ProcOf(output.gantt[k].pid).arrivalTime

\* a returned timeline in which a process that arrives late is the first of the input list
\* and starts exactly at its arrival, after an idle gap
C4_Witness ==
    /\ Returned /\ N >= 2 /\ Len(output.gantt) >= 2
    /\ processes[1].arrivalTime > 0
    /\ \E k \in 2..Len(output.gantt) :
        /\ output.gantt[k].pid = processes[1].id
        /\ output.gantt[k].start = processes[1].arrivalTime
        /\ output.gantt[k - 1].end < output.gantt[k].start

\* C5: every result has turnaroundTime = waitingTime + burstTime.
C5_TurnaroundIsWaitingPlusBurst ==
    Returned =>
        \A k \in 1..Len(output.results) :
            /\ IsResult(output.results[k])
            /\ output.results[k].turnaroundTime
                 = output.results[k].waitingTime + output.results[k].burstTime

\* a returned result of a process that arrived after time 0 and had to wait
C5_Witness ==
    /\ Returned
    /\ \E k \in 1..Len(output.results) :
        /\ output.results[k].arrivalTime > 0
        /\ output.results[k].waitingTime > 0
        /\ output.results[k].turnaroundTime > output.results[k].burstTime

\* C6: every result has waitingTime >= 0 and turnaroundTime >= burstTime >= 1.
C6_WaitingNonNegative ==
    Returned =>
        \A k \in 1..Len(output.results) :
            /\ IsResult(output.results[k])
            /\ output.results[k].waitingTime >= 0
            /\ output.results[k].turnaroundTime >= output.results[k].burstTime
            /\ output.results[k].burstTime >= 1

\* a returned result with waitingTime exactly 0 for a process that arrived after time 0,
\* next to a result with a positive waitingTime
C6_Witness ==
    /\ Returned
    /\ \E k \in 1..Len(output.results) :
        output.results[k].arrivalTime > 0 /\ output.results[k].waitingTime = 0
    /\ \E k \in 1..Len(output.results) : output.results[k].waitingTime > 0

\* the CPU time process `id` has received in the first i intervals of timeline g
RECURSIVE Ran(_, _, _)
Ran(g, id, i) ==
    IF i = 0 THEN 0
    ELSE Ran(g, id, i - 1) + (IF g[i].pid = id THEN g[i].end - g[i].start ELSE 0)

\* the processes with work left after the first i intervals of timeline g
Unfinished(g, i) == {j \in 1..N : Ran(g, processes[j].id, i) < processes[j].burstTime}

\* the processes that have no interval among the first i intervals of timeline g
NotRun(g, i) == {j \in 1..N : \A k \in 1..i : g[k].pid # processes[j].id}

\* the smallest arrival time among the processes at positions S
MinArrival(S) == CHOOSE t \in {processes[j].arrivalTime : j \in S} :
                    \A j \in S : t <= processes[j].arrivalTime

\* (a1, a2, a3) < (b1, b2, b3) lexicographically
LexLess(a1, a2, a3, b1, b2, b3) ==
    a1 < b1 \/ (a1 = b1 /\ (a2 < b2 \/ (a2 = b2 /\ a3 < b3)))

\* C7: idle-time rule.  The first interval starts at the smallest arrival time;
\* after interval i the next one starts at end_i when an unfinished process has
\* arrived by end_i, and otherwise at the smallest arrival time of the unfinished
\* processes; every interval is a positive-length run of an input process.
C7_IdleTimeRule ==
    Returned /\ N > 0 =>
        LET g == output.gantt
        IN  /\ Len(g) > 0
            /\ g[1].start = MinArrival(1..N)
            /\ \A i \in 1..Len(g) : g[i].pid \in Ids /\ g[i].start < g[i].end
            /\ \A i \in 1..Len(g) - 1 :
                LET U == Unfinished(g, i)
                IN  IF \E j \in U : processes[j].arrivalTime <= g[i].end
                    THEN g[i + 1].start = g[i].end
                    ELSE U # {} /\ g[i + 1].start = MinArrival(U)

\* roundRobin has returned a timeline with an idle gap after its first interval, two
\* processes still to come at that moment, and no gap between the next two intervals
C7_Witness ==
    /\ Returned /\ algorithm = "rr" /\ N = 3 /\ Len(output.gantt) >= 3
    /\ output.gantt[1].end < output.gantt[2].start
    /\ Cardinality(Unfinished(output.gantt, 1)) = 2
    /\ output.gantt[2].start = MinArrival(Unfinished(output.gantt, 1))
    /\ output.gantt[2].end = output.gantt[3].start

\* C8: fcfs runs the processes in ascending (arrivalTime, id) order whatever the
\* input order, one interval each; on the four default processes the timeline is
\* (1,0,5),(2,5,8),(3,8,16),(4,16,18) and the waiting times are 0,3,4,10.
C8_FcfsOrder ==
    Returned /\ algorithm = "fcfs" =>
        LET g == output.gantt
        IN  /\ Len(g) = N
            /\ {g[k].pid : k \in 1..Len(g)} = Ids
            /\ \A k \in 1..Len(g) - 1 :
                g[k].pid \in Ids /\ g[k + 1].pid \in Ids /\
                LexLess(0, ProcOf(g[k].pid).arrivalTime, g[k].pid,
                        0, ProcOf(g[k + 1].pid).arrivalTime, g[k + 1].pid)
            /\ processes = DEFAULT_PROCESSES =>
                /\ g = << [pid |-> 1, start |-> 0, end |-> 5], [pid |-> 2, start |-> 5, end |-> 8],
                          [pid |-> 3, start |-> 8, end |-> 16], [pid |-> 4, start |-> 16, end |-> 18] >>
                /\ [k \in 1..4 |-> output.results[k].waitingTime] = <<0, 3, 4, 10>>

\* fcfs has returned for an input given out of arrival order in which two processes arrive
\* together, the one with the larger id first in the input list and second in the timeline
C8_Witness ==
    /\ Returned /\ algorithm = "fcfs" /\ N = 3
    /\ ~InputSortedByArrival
    /\ \E i, j \in 1..N :
        /\ i < j
        /\ processes[i].arrivalTime = processes[j].arrivalTime
        /\ processes[i].id > processes[j].id
        /\ \E k \in 1..Len(output.gantt) - 1 :
            output.gantt[k].pid = processes[j].id /\ output.gantt[k + 1].pid = processes[i].id

\* C9: every interval of sjf's timeline runs, among the processes that have
\* arrived by the interval's start and have not yet run, the one that is smallest
\* in (burstTime, arrivalTime, id); on the four default processes the timeline is
\* (1,0,5),(2,5,8),(4,8,10),(3,10,18) and the waiting times, in input order, are 0,3,6,2.
C9_SjfPick ==
    Returned /\ algorithm = "sjf" =>
        LET g == output.gantt
        IN  /\ \A k \in 1..Len(g) :
                \E c \in NotRun(g, k - 1) :
                    /\ processes[c].id = g[k].pid
                    /\ processes[c].arrivalTime <= g[k].start
                    /\ \A j \in NotRun(g, k - 1) \ {c} :
                        processes[j].arrivalTime <= g[k].start =>
                            LexLess(processes[c].burstTime, processes[c].arrivalTime, processes[c].id,
                                    processes[j].burstTime, processes[j].arrivalTime, processes[j].id)
            /\ processes = DEFAULT_PROCESSES =>
                /\ g = << [pid |-> 1, start |-> 0, end |-> 5], [pid |-> 2, start |-> 5, end |-> 8],
                          [pid |-> 4, start |-> 8, end |-> 10], [pid |-> 3, start |-> 10, end |-> 18] >>
                /\ Len(output.results) = 4
                /\ [k \in 1..4 |-> output.results[k].waitingTime] = <<0, 3, 6, 2>>

\* sjf has returned after a decision between two arrived processes of equal burst time
\* in which the earlier arrival won although it has the larger id
C9_Witness ==
    /\ Returned /\ algorithm = "sjf"
    /\ \E k \in 1..Len(output.gantt) :
        \E c, j \in NotRun(output.gantt, k - 1) :
            /\ processes[c].id = output.gantt[k].pid
            /\ processes[j].arrivalTime <= output.gantt[k].start
            /\ processes[j].burstTime = processes[c].burstTime
            /\ processes[j].arrivalTime > processes[c].arrivalTime
            /\ processes[j].id < processes[c].id

\* C10: every interval of priorityScheduling's timeline runs, among the processes
\* that have arrived by the interval's start and have not yet run, the one that is
\* smallest in (priority, arrivalTime, id); and when such a process has arrived by
\* the previous completion (time 0 for the first interval) the interval starts
\* there: a better-priority process that has not arrived is not waited for.
C10_PriorityPick ==
    Returned /\ algorithm = "priority" =>
        LET g == output.gantt
        IN  \A k \in 1..Len(g) :
                LET before == IF k = 1 THEN 0 ELSE g[k - 1].end
                IN  /\ \E c \in NotRun(g, k - 1) :
                        /\ processes[c].id = g[k].pid
                        /\ processes[c].arrivalTime <= g[k].start
                        /\ \A j \in NotRun(g, k - 1) \ {c} :
                            processes[j].arrivalTime <= g[k].start =>
                                LexLess(processes[c].priority, processes[c].arrivalTime, processes[c].id,
                                        processes[j].priority, processes[j].arrivalTime, processes[j].id)
                    /\ (\E j \in NotRun(g, k - 1) : processes[j].arrivalTime <= before)
                            => g[k].start = before

\* priorityScheduling has returned after starting a process at a moment when a process
\* of better priority had not yet arrived, and after a decision between two arrived processes
C10_Witness ==
    /\ Returned /\ algorithm = "priority"
    /\ \E k \in 1..Len(output.gantt) :
        \E c, j \in NotRun(output.gantt, k - 1) :
            /\ processes[c].id = output.gantt[k].pid
            /\ processes[j].priority < processes[c].priority
            /\ processes[j].arrivalTime > output.gantt[k].start
            /\ processes[j].arrivalTime < output.gantt[k].end
    /\ \E k \in 1..Len(output.gantt) :
        \E c, j \in NotRun(output.gantt, k - 1) :
            /\ processes[c].id = output.gantt[k].pid
            /\ processes[j].arrivalTime <= output.gantt[k].start
            /\ processes[j].priority > processes[c].priority
            /\ processes[j].arrivalTime < processes[c].arrivalTime

\* the position in the input list of the process with this id
PosOf(id) == CHOOSE i \in 1..N : processes[i].id = id

\* the indices of the intervals of timeline g that belong to process `id`
Slices(g, id) == {k \in 1..Len(g) : g[k].pid = id}

\* the first and the last interval of process `id` in timeline g
FirstSlice(g, id) == CHOOSE k \in Slices(g, id) : \A m \in Slices(g, id) : k <= m
LastSlice(g, id) == CHOOSE k \in Slices(g, id) : \A m \in Slices(g, id) : k >= m

\* the result that carries this id
ResultOf(rs, id) == rs[CHOOSE k \in 1..Len(rs) : rs[k].id = id]

\* C11: fcfs, sjf and priorityScheduling are non-preemptive: every process has
\* exactly one interval, as long as its burst time, and its waitingTime is that
\* interval's start minus its arrival time, also when a shorter or better-priority
\* process arrives during the interval.
C11_NonPreemptive ==
    Returned /\ algorithm \in {"fcfs", "sjf", "priority"} =>
        LET g == output.gantt
            rs == output.results
        IN  \A i \in 1..N :
                LET id == processes[i].id
                IN  /\ Cardinality(Slices(g, id)) = 1
                    /\ \A k \in Slices(g, id) :
                        /\ g[k].end - g[k].start = processes[i].burstTime
                        /\ \E m \in 1..Len(rs) : IsResult(rs[m]) /\ rs[m].id = id
                        /\ \A m \in 1..Len(rs) :
                            IsResult(rs[m]) /\ rs[m].id = id =>
                                rs[m].waitingTime = g[k].start - processes[i].arrivalTime

\* sjf has returned after a shorter process arrived in the middle of a longer process's
\* interval, or priorityScheduling after a better-priority process did
C11_Witness ==
    /\ Returned /\ algorithm \in {"sjf", "priority"}
    /\ \E k \in 1..Len(output.gantt) : \E j \in 1..N :
        LET c == PosOf(output.gantt[k].pid)
        IN  /\ processes[j].arrivalTime > output.gantt[k].start
            /\ processes[j].arrivalTime < output.gantt[k].end
            /\ IF algorithm = "sjf"
               THEN processes[j].burstTime < processes[c].burstTime
               ELSE processes[j].priority < processes[c].priority
            /\ Cardinality(Slices(output.gantt, processes[c].id)) = 1

\* C12: in roundRobin every interval is as long as the smaller of the quantum and
\* the time its process had left before the slice: none is longer than the quantum,
\* and every interval of a process but its last is exactly one quantum long.
C12_SliceLength ==
    Returned /\ algorithm = "rr" =>
        LET g == output.gantt
        IN  \A k \in 1..Len(g) :
                /\ g[k].pid \in Ids
                /\ LET len == g[k].end - g[k].start
                       left == ProcOf(g[k].pid).burstTime - Ran(g, g[k].pid, k - 1)
                   IN  /\ len = Min(quantum, left)
                       /\ len <= quantum
                       /\ k # LastSlice(g, g[k].pid) => len = quantum

\* roundRobin has returned a process in several slices, the last one shorter than the
\* quantum, next to a process that needed a single slice
C12_Witness ==
    /\ Returned /\ algorithm = "rr" /\ quantum > 1
    /\ \E id \in Ids :
        /\ Cardinality(Slices(output.gantt, id)) >= 2
        /\ LET k == LastSlice(output.gantt, id)
           IN  output.gantt[k].end - output.gantt[k].start < quantum
    /\ \E id \in Ids : Cardinality(Slices(output.gantt, id)) = 1

\* the process at position i comes before the one at position j in (arrivalTime, id) order
ArrivesBefore(i, j) ==
    LexLess(0, processes[i].arrivalTime, processes[i].id,
            0, processes[j].arrivalTime, processes[j].id)

\* C13: in roundRobin, when a slice [s, e] leaves its process with time left, every
\* process that arrived in (s, e], e included, stands in the ready queue ahead of
\* the preempted process, which is last; and in the returned timeline each such
\* arrival has its first slice before the preempted process's next slice.
C13_ArrivalsAheadOfPreempted ==
    /\ pc = "run" /\ algorithm = "rr" /\ Len(gantt) > 0 =>
        LET b == gantt[Len(gantt)]
            p == PosOf(b.pid)
        IN  remaining[p].remainingTime > 0 =>
                /\ Len(queue) > 0
                /\ queue[Len(queue)] = p
                /\ \A j \in 1..N :
                    processes[j].arrivalTime > b.start /\ processes[j].arrivalTime <= b.end =>
                        \E m \in 1..Len(queue) - 1 : queue[m] = j
    /\ Returned /\ algorithm = "rr" =>
        LET g == output.gantt
        IN  \A k \in 1..Len(g) :
                Ran(g, g[k].pid, k) < ProcOf(g[k].pid).burstTime =>
                    /\ \E n \in Slices(g, g[k].pid) : n > k
                    /\ \A j \in 1..N :
                        processes[j].arrivalTime > g[k].start /\ processes[j].arrivalTime <= g[k].end =>
                            /\ Slices(g, processes[j].id) # {}
                            /\ FirstSlice(g, processes[j].id) > k
                            /\ \A n \in Slices(g, g[k].pid) :
                                n > k => FirstSlice(g, processes[j].id) < n

\* roundRobin has returned after preempting a process at the very moment another process
\* arrived, while a third process was already waiting in the queue
C13_Witness ==
    /\ Returned /\ algorithm = "rr" /\ N = 3
    /\ \E k \in 1..Len(output.gantt) - 3 : \E j \in 1..N :
        /\ Ran(output.gantt, output.gantt[k].pid, k) < ProcOf(output.gantt[k].pid).burstTime
        /\ processes[j].arrivalTime = output.gantt[k].end
        /\ output.gantt[k + 1].pid \notin {output.gantt[k].pid, processes[j].id}
        /\ output.gantt[k + 2].pid = processes[j].id
        /\ output.gantt[k + 3].pid = output.gantt[k].pid

\* C14: in roundRobin the processes enter the ready queue in ascending
\* (arrivalTime, id) order: the enqueued processes come before all the others in
\* that order, the processes waiting in the queue for their first slice stand in
\* that order, a process that has run comes before every process that has not, and
\* in the returned timeline the first slices are in that order.
C14_FirstEnqueueOrder ==
    /\ pc \in {"run", "break", "done"} /\ algorithm = "rr" =>
        /\ \A i, j \in 1..N :
            processes[i].id \in enqueued /\ processes[j].id \notin enqueued => ArrivesBefore(i, j)
        /\ \A m, n \in 1..Len(queue) :
            /\ m < n
            /\ remaining[queue[m]].remainingTime = remaining[queue[m]].burstTime
            /\ remaining[queue[n]].remainingTime = remaining[queue[n]].burstTime
            => ArrivesBefore(queue[m], queue[n])
        /\ \A i, j \in 1..N :
            /\ remaining[i].remainingTime < remaining[i].burstTime
            /\ remaining[j].remainingTime = remaining[j].burstTime
            => ArrivesBefore(i, j)
    /\ Returned /\ algorithm = "rr" =>
        LET g == output.gantt
        IN  \A i, j \in 1..N :
                /\ Slices(g, processes[i].id) # {}
                /\ ArrivesBefore(i, j) => FirstSlice(g, processes[i].id) < FirstSlice(g, processes[j].id)

\* roundRobin has returned for three processes given out of order, two of them arriving
\* together with the larger id first in the list, the third arriving during a slice, every
\* one of them needing more than one slice
C14_Witness ==
    /\ Returned /\ algorithm = "rr" /\ N = 3
    /\ processes[1].arrivalTime = processes[3].arrivalTime
    /\ processes[1].id > processes[3].id
    /\ processes[2].arrivalTime > processes[1].arrivalTime
    /\ \E k \in 1..Len(output.gantt) :
        /\ processes[2].arrivalTime > output.gantt[k].start
        /\ processes[2].arrivalTime <= output.gantt[k].end
    /\ FirstSlice(output.gantt, processes[3].id) < FirstSlice(output.gantt, processes[1].id)
    /\ FirstSlice(output.gantt, processes[1].id) < FirstSlice(output.gantt, processes[2].id)
    /\ Len(output.gantt) > 3

\* C15: in roundRobin every process's turnaroundTime is the end of its last interval
\* minus its arrival time, and its waitingTime is that turnaroundTime minus its burst time.
C15_RrTimes ==
    Returned /\ algorithm = "rr" =>
        LET g == output.gantt
            rs == output.results
        IN  \A i \in 1..N :
                LET id == processes[i].id
                IN  /\ Slices(g, id) # {}
                    /\ \E m \in 1..Len(rs) : IsResult(rs[m]) /\ rs[m].id = id
                    /\ \A m \in 1..Len(rs) :
                        IsResult(rs[m]) /\ rs[m].id = id =>
                            /\ rs[m].turnaroundTime
                                 = g[LastSlice(g, id)].end - processes[i].arrivalTime
                            /\ rs[m].waitingTime = rs[m].turnaroundTime - processes[i].burstTime

\* roundRobin has returned a process that arrived after time 0, ran in several slices and
\* finished before the end of the timeline
C15_Witness ==
    /\ Returned /\ algorithm = "rr"
    /\ \E i \in 1..N :
        /\ processes[i].arrivalTime > 0
        /\ Cardinality(Slices(output.gantt, processes[i].id)) >= 2
        /\ LastSlice(output.gantt, processes[i].id) < Len(output.gantt)
        /\ output.results[i].turnaroundTime
             = output.gantt[LastSlice(output.gantt, processes[i].id)].end - processes[i].arrivalTime

\* C16: when the quantum is at least every burst time, roundRobin gives each process
\* one slice and returns the timeline fcfs returns for the same input, with the same
\* waitingTime and turnaroundTime for every process; the function Fcfs used for the
\* comparison is what a call of fcfs returns.
C16_RrLargeQuantumIsFcfs ==
    /\ Returned /\ algorithm = "fcfs" => output = Fcfs(processes)
    /\ Returned /\ algorithm = "rr" /\ (\A i \in 1..N : processes[i].burstTime <= quantum) =>
        LET f == Fcfs(processes)
        IN  /\ \A i \in 1..N : Cardinality(Slices(output.gantt, processes[i].id)) = 1
            /\ output.gantt = f.gantt
            /\ \A i \in 1..N :
                /\ \E m \in 1..Len(output.results) : output.results[m].id = processes[i].id
                /\ \E m \in 1..Len(f.results) : f.results[m].id = processes[i].id
                /\ ResultOf(output.results, processes[i].id).waitingTime
                     = ResultOf(f.results, processes[i].id).waitingTime
                /\ ResultOf(output.results, processes[i].id).turnaroundTime
                     = ResultOf(f.results, processes[i].id).turnaroundTime

\* roundRobin has returned for three processes given out of arrival order, none longer
\* than the quantum and one shorter, with an idle gap in the timeline
C16_Witness ==
    /\ Returned /\ algorithm = "rr" /\ N = 3
    /\ \A i \in 1..N : processes[i].burstTime <= quantum
    /\ \E i \in 1..N : processes[i].burstTime < quantum
    /\ \E i \in 1..N : processes[i].burstTime = quantum
    /\ ~InputSortedByArrival
    /\ \E k \in 1..Len(output.gantt) - 1 : output.gantt[k].end < output.gantt[k + 1].start
    /\ output.gantt = Fcfs(processes).gantt

\* some returned result waited more than three times its burst time
SomeResultStarved == \E k \in 1..Len(output.results) :
                        output.results[k].waitingTime > 3 * output.results[k].burstTime

\* C17: priorityScheduling returns starvationRisk = true exactly when at least one
\* result has waitingTime > 3 * burstTime; waiting exactly 3 * burstTime does not count.
C17_StarvationFlag ==
    Returned /\ algorithm = "priority" =>
        /\ "starvationRisk" \in DOMAIN output
        /\ output.starvationRisk \in BOOLEAN
        /\ output.starvationRisk <=> SomeResultStarved

\* priorityScheduling has returned the flag set, for one process that waited more than
\* three times its burst time next to one that waited exactly three times its burst time
C17_Witness ==
    /\ Returned /\ algorithm = "priority"
    /\ output.starvationRisk = TRUE
    /\ \E k \in 1..Len(output.results) :
        output.results[k].waitingTime = 3 * output.results[k].burstTime + 1
    /\ \E k \in 1..Len(output.results) :
        /\ output.results[k].waitingTime = 3 * output.results[k].burstTime
        /\ output.results[k].waitingTime > 0

\* C18: only priorityScheduling's output carries a starvationRisk field; the outputs
\* of fcfs, sjf and roundRobin have the fields gantt and results and no other,
\* whatever the waiting times.
C18_FlagOnlyFromPriority ==
    Returned =>
        /\ "starvationRisk" \in DOMAIN output <=> algorithm = "priority"
        /\ algorithm \in {"fcfs", "sjf", "rr"} => DOMAIN output = {"gantt", "results"}
        /\ algorithm = "priority" => DOMAIN output = {"gantt", "results", "starvationRisk"}

\* roundRobin has returned a result that waited more than three times its burst time, in
\* an output without the field
C18_Witness ==
    /\ Returned /\ algorithm = "rr"
    /\ SomeResultStarved
    /\ "starvationRisk" \notin DOMAIN output

\* C19 as stated: for a single-process input every algorithm, roundRobin with any
\* quantum >= 1 included, returns exactly one interval, which starts at the process's
\* arrival time, and a result with waitingTime = 0.
C19_SingleProcessOneInterval ==
    Returned /\ N = 1 =>
        /\ Len(output.gantt) = 1
        /\ output.gantt[1].start = processes[1].arrivalTime
        /\ Len(output.results) = 1
        /\ output.results[1].waitingTime = 0

\* C19, amended: for a single-process input every algorithm returns a timeline that
\* starts at the process's arrival time and runs the process without a gap to arrival
\* + burst, and a result with waitingTime = 0; fcfs, sjf and priorityScheduling return
\* exactly one interval, roundRobin one interval per quantum slice, ceil(burst / quantum)
\* in all, which is one exactly when quantum >= burst.
C19_SingleProcess ==
    Returned /\ N = 1 =>
        LET g == output.gantt
            p == processes[1]
        IN  /\ Len(g) >= 1
            /\ g[1].start = p.arrivalTime
            /\ \A k \in 1..Len(g) : g[k].pid = p.id
            /\ \A k \in 1..Len(g) - 1 : g[k].end = g[k + 1].start
            /\ g[Len(g)].end = p.arrivalTime + p.burstTime
            /\ Len(output.results) = 1
            /\ output.results[1].waitingTime = 0
            /\ algorithm # "rr" => Len(g) = 1
            /\ algorithm = "rr" => Len(g) = (p.burstTime + quantum - 1) \div quantum
            /\ algorithm = "rr" => (Len(g) = 1 <=> quantum >= p.burstTime)

\* roundRobin has returned for a single process that arrived after time 0 and needed more
\* than one quantum, the last slice shorter than the quantum
C19_Witness ==
    /\ Returned /\ N = 1 /\ algorithm = "rr"
    /\ processes[1].arrivalTime > 0
    /\ processes[1].burstTime > quantum
    /\ Len(output.gantt) = 2
    /\ output.gantt[2].end - output.gantt[2].start < quantum
    /\ output.results[1].waitingTime = 0

\* the fields of an input record
ProcessFields == {"id", "arrivalTime", "burstTime", "priority"}

\* C20: no step of any of the four algorithms changes the caller's input list: it
\* keeps its length and order, and every record keeps its id, arrivalTime, burstTime
\* and priority and gets no field added (no done, remainingTime or firstRun).
C20_InputUnchanged ==
    [][/\ processes' = processes
       /\ \A i \in 1..Len(processes') : DOMAIN processes'[i] = ProcessFields]_vars

\* sjf has returned after marking all three of its working records done, for an input
\* given out of arrival order whose records still have their four fields only
C20_Witness ==
    /\ Returned /\ algorithm = "sjf" /\ N = 3
    /\ ~InputSortedByArrival
    /\ Len(remaining) = 3
    /\ \A i \in 1..3 : remaining[i].done /\ "done" \notin DOMAIN processes[i]
    /\ \A i \in 1..3 : DOMAIN processes[i] = ProcessFields

\* the number of slices of length q that the bursts of the processes from the i-th on need
RECURSIVE SlicesNeeded(_, _, _)
SlicesNeeded(ps, q, i) ==
    IF i > Len(ps) THEN 0
    ELSE (ps[i].burstTime + q - 1) \div q + SlicesNeeded(ps, q, i + 1)

\* C22: every call on a valid input returns; fcfs, sjf and priorityScheduling return
\* exactly n intervals, and roundRobin with quantum q >= 1 returns exactly the sum
\* over the processes of ceil(burstTime / q) intervals.
C22_Terminates ==
    /\ <>Returned
    /\ [](Returned =>
            /\ algorithm \in {"fcfs", "sjf", "priority"} => Len(output.gantt) = N
            /\ algorithm = "rr" => Len(output.gantt) = SlicesNeeded(processes, quantum, 1))

\* roundRobin has returned more intervals than there are processes, one of the processes
\* needing a last slice shorter than the quantum and one arriving after time 0
C22_Witness ==
    /\ Returned /\ algorithm = "rr" /\ N >= 2 /\ quantum > 1
    /\ Len(output.gantt) > N
    /\ Len(output.gantt) = SlicesNeeded(processes, quantum, 1)
    /\ \E i \in 1..N : processes[i].burstTime % quantum # 0 /\ processes[i].burstTime > quantum
    /\ \E i \in 1..N : processes[i].arrivalTime > 0

\* the total of the burst times of the processes from the i-th on
RECURSIVE TotalBurst(_, _)
TotalBurst(ps, i) == IF i > Len(ps) THEN 0 ELSE ps[i].burstTime + TotalBurst(ps, i + 1)

\* the total length of the first i intervals of timeline g
RECURSIVE TotalLength(_, _)
TotalLength(g, i) == IF i = 0 THEN 0 ELSE TotalLength(g, i - 1) + (g[i].end - g[i].start)

\* C27: in all four algorithms the intervals of every process add up to its burst
\* time, so all the intervals add up to the total burst time, and the last interval
\* ends at or after the total burst time: exactly at it when the earliest arrival
\* is 0 and the timeline has no idle gap, and only then.
C27_CpuTimeConserved ==
    Returned =>
        LET g == output.gantt
        IN  /\ \A k \in 1..Len(g) : g[k].pid \in Ids
            /\ \A i \in 1..N : Ran(g, processes[i].id, Len(g)) = processes[i].burstTime
            /\ TotalLength(g, Len(g)) = TotalBurst(processes, 1)
            /\ N > 0 =>
                /\ Len(g) > 0
                /\ g[Len(g)].end >= TotalBurst(processes, 1)
                /\ g[Len(g)].end = TotalBurst(processes, 1)
                     <=> /\ MinArrival(1..N) = 0
                         /\ \A k \in 1..Len(g) - 1 : g[k].end = g[k + 1].start

\* roundRobin has returned a timeline that ends after the total burst time because of an
\* idle gap, with a process run in several slices
C27_Witness ==
    /\ Returned /\ algorithm = "rr" /\ N >= 2
    /\ \E i \in 1..N : Cardinality(Slices(output.gantt, processes[i].id)) >= 2
    /\ \E k \in 1..Len(output.gantt) - 1 : output.gantt[k].end < output.gantt[k + 1].start
    /\ output.gantt[Len(output.gantt)].end > TotalBurst(processes, 1)
    /\ TotalLength(output.gantt, Len(output.gantt)) = TotalBurst(processes, 1)

\* C28: roundRobin's ready queue, at the start of every loop iteration, holds
\* exactly the processes that have arrived by the clock and have time left, each
\* once: no finished process, no process still to arrive, no process twice; and
\* every remaining time is between 0 and the burst time.
C28_QueueInvariant ==
    pc = "run" /\ algorithm = "rr" =>
        /\ \A m \in 1..Len(queue) : queue[m] \in 1..N
        /\ \A m, n \in 1..Len(queue) : m # n => queue[m] # queue[n]
        /\ {queue[m] : m \in 1..Len(queue)}
             = {i \in 1..N : remaining[i].arrivalTime <= currentTime /\ remaining[i].remainingTime > 0}
        /\ \A i \in 1..N :
            remaining[i].remainingTime >= 0 /\ remaining[i].remainingTime <= remaining[i].burstTime

\* roundRobin is at the start of an iteration with one process finished, one waiting in
\* the queue with part of its burst done, and one still to arrive
C28_Witness ==
    /\ pc = "run" /\ algorithm = "rr" /\ N = 3
    /\ \E i \in 1..N : remaining[i].remainingTime = 0
    /\ \E i \in 1..N :
        /\ remaining[i].remainingTime > 0
        /\ remaining[i].remainingTime < remaining[i].burstTime
        /\ \E m \in 1..Len(queue) : queue[m] = i
    /\ \E i \in 1..N :
        /\ remaining[i].arrivalTime > currentTime
        /\ \A m \in 1..Len(queue) : queue[m] # i

\* C29: roundRobin with n processes and quantum q starts every process's first slice
\* at most (n - 1) * q after its arrival and leaves at most (n - 1) * q between the
\* end of one of its slices and the start of its next; between two consecutive
\* slices of a process, every other process that was in the ready queue when it
\* was preempted (arrived by then, with time left) runs exactly one slice.
C29_BoundedWait ==
    Returned /\ algorithm = "rr" =>
        LET g == output.gantt
        IN  /\ \A i \in 1..N :
                /\ Slices(g, processes[i].id) # {}
                /\ g[FirstSlice(g, processes[i].id)].start - processes[i].arrivalTime
                     <= (N - 1) * quantum
            /\ \A k, n \in 1..Len(g) :
                /\ k < n
                /\ g[k].pid = g[n].pid
                /\ \A m \in k + 1..n - 1 : g[m].pid # g[k].pid
                => /\ g[n].start - g[k].end <= (N - 1) * quantum
                   /\ \A j \in 1..N :
                        /\ processes[j].id # g[k].pid
                        /\ processes[j].arrivalTime <= g[k].end
                        /\ Ran(g, processes[j].id, k) < processes[j].burstTime
                        => Cardinality({m \in k + 1..n - 1 : g[m].pid = processes[j].id}) = 1

\* roundRobin has returned a process that waited the full (n - 1) * q for its first slice
\* and another that waited the full (n - 1) * q between two of its slices, n = 3
C29_Witness ==
    /\ Returned /\ algorithm = "rr" /\ N = 3
    /\ \E i \in 1..N :
        output.gantt[FirstSlice(output.gantt, processes[i].id)].start - processes[i].arrivalTime
            = (N - 1) * quantum
    /\ \E k \in 1..Len(output.gantt) - 3 :
        /\ output.gantt[k].pid = output.gantt[k + 3].pid
        /\ output.gantt[k + 1].pid # output.gantt[k].pid
        /\ output.gantt[k + 2].pid # output.gantt[k].pid
        /\ output.gantt[k + 3].start - output.gantt[k].end = (N - 1) * quantum

\* C30: when all processes have the same burst time sjf returns fcfs's timeline for
\* the input, and when all have the same priority priorityScheduling does.
C30_EqualKeysIsFcfs ==
    /\ Returned /\ algorithm = "sjf"
         /\ (\A i, j \in 1..N : processes[i].burstTime = processes[j].burstTime)
       => output.gantt = Fcfs(processes).gantt
    /\ Returned /\ algorithm = "priority"
         /\ (\A i, j \in 1..N : processes[i].priority = processes[j].priority)
       => output.gantt = Fcfs(processes).gantt

\* priorityScheduling has returned fcfs's timeline for three processes of one priority and
\* different burst times, given out of arrival order, two arriving together with the larger
\* id first in the list
C30_Witness ==
    /\ Returned /\ algorithm = "priority" /\ N = 3
    /\ \A i, j \in 1..N : processes[i].priority = processes[j].priority
    /\ \E i, j \in 1..N : processes[i].burstTime # processes[j].burstTime
    /\ ~InputSortedByArrival
    /\ \E i, j \in 1..N :
        i < j /\ processes[i].arrivalTime = processes[j].arrivalTime /\ processes[i].id > processes[j].id
    /\ output.gantt = Fcfs(processes).gantt

\* the list with every priority set to 1
FlatPriority(ps) ==
    [i \in 1..Len(ps) |-> [id |-> ps[i].id, arrivalTime |-> ps[i].arrivalTime,
                           burstTime |-> ps[i].burstTime, priority |-> 1]]

\* outputs o1 and o2 have the same timeline and the same waitingTime and turnaroundTime
\* for every process
SameSchedule(o1, o2) ==
    /\ o1.gantt = o2.gantt
    /\ Len(o1.results) = Len(o2.results)
    /\ \A k \in 1..Len(o1.results) : \E m \in 1..Len(o2.results) :
        /\ o2.results[m].id = o1.results[k].id
        /\ o2.results[m].waitingTime = o1.results[k].waitingTime
        /\ o2.results[m].turnaroundTime = o1.results[k].turnaroundTime

\* C23: priority has no influence outside priorityScheduling: fcfs, sjf and roundRobin
\* return, for an input, the timeline and the waiting and turnaround times they
\* return for the input with every priority set to 1, hence the same for any two
\* inputs that differ in priorities only; the functions Sjf and RoundRobin used for
\* the comparison are what the calls of sjf and roundRobin return.
C23_PriorityIgnored ==
    /\ Returned /\ algorithm = "sjf" => output = Sjf(processes)
    /\ Returned /\ algorithm = "rr" => output = RoundRobin(processes, quantum)
    /\ Returned /\ algorithm = "fcfs" => SameSchedule(output, Fcfs(FlatPriority(processes)))
    /\ Returned /\ algorithm = "sjf" => SameSchedule(output, Sjf(FlatPriority(processes)))
    /\ Returned /\ algorithm = "rr" =>
        SameSchedule(output, RoundRobin(FlatPriority(processes), quantum))

\* sjf has returned for two processes of equal burst time, the one that arrived later
\* and ran later having the better priority
C23_Witness ==
    /\ Returned /\ algorithm = "sjf" /\ N >= 2
    /\ \E i, j \in 1..N :
        /\ processes[i].burstTime = processes[j].burstTime
        /\ processes[i].arrivalTime < processes[j].arrivalTime
        /\ processes[i].priority > processes[j].priority
        /\ processes[j].arrivalTime
             <= output.gantt[FirstSlice(output.gantt, processes[i].id)].start
        /\ FirstSlice(output.gantt, processes[i].id) < FirstSlice(output.gantt, processes[j].id)

\* the orders in which n processes can run
Orders(n) == {f \in [1..n -> 1..n] : \A i, j \in 1..n : i # j => f[i] # f[j]}

\* the total waiting time of the schedule that runs the processes of ps in the order f
\* from the k-th on, each as early as the clock and its arrival allow
RECURSIVE OrderWaiting(_, _, _, _)
OrderWaiting(ps, f, k, now) ==
    IF k > Len(ps) THEN 0
    ELSE LET p == ps[f[k]]
             start == IF now < p.arrivalTime THEN p.arrivalTime ELSE now
         IN  (start - p.arrivalTime) + OrderWaiting(ps, f, k + 1, start + p.burstTime)

\* the total of the waiting times of the first k results
RECURSIVE TotalWaiting(_, _)
TotalWaiting(rs, k) == IF k = 0 THEN 0 ELSE TotalWaiting(rs, k - 1) + rs[k].waitingTime

\* C26: sjf's total waiting time is no greater than that of any schedule that runs
\* each process once to completion, not before its arrival and without overlap
\* (every such schedule waits at least as long as the earliest schedule of its
\* order), in particular no greater than that of fcfs.
C26_SjfOptimal ==
    Returned /\ algorithm = "sjf" =>
        /\ \A f \in Orders(N) :
            TotalWaiting(output.results, Len(output.results)) <= OrderWaiting(processes, f, 1, 0)
        /\ TotalWaiting(output.results, Len(output.results))
             <= TotalWaiting(Fcfs(processes).results, N)

\* C24: roundRobin called with a quantum of 0 or less and a non-empty valid list
\* fails fast: it runs no slice and returns no timeline.
C24_NonPositiveQuantumRejected ==
    algorithm = "rr" /\ quantum <= 0 /\ N > 0 =>
        /\ Len(gantt) = 0
        /\ pc # "done"

\* ---------------------------------------------------------------- C25
\* the value of a number field is a number, not the empty string
IsNumber(v) == v # Empty

\* every process has arrivalTime >= 0, burstTime > 0 and priority >= 1
AllValid(ps) ==
    \A i \in 1..Len(ps) :
        /\ IsNumber(ps[i].arrivalTime) /\ ps[i].arrivalTime[1] >= 0
        /\ IsNumber(ps[i].burstTime) /\ ps[i].burstTime[1] > 0
        /\ IsNumber(ps[i].priority) /\ ps[i].priority[1] >= 1

\* C25: handleSimulate arranges a run of an algorithm, and the timer runs it, only on a
\* process list in which every process has arrivalTime >= 0, burstTime > 0 and
\* priority >= 1; when some process of the table violates one of these, handleSimulate
\* arranges no run, records at least one error and sets the result to null
C25_OnlyValidListsRun ==
    [][/\ HandleSimulate =>
            /\ timer' # Undefined => AllValid(timer'.processes)
            /\ ~AllValid(appProcesses) =>
                    /\ timer' = Undefined
                    /\ Len(errors') >= 1
                    /\ result' = Null
       /\ TimerFires => AllValid(timer.processes)]_vars

\* ---------------------------------------------------------------- C31
\* an iteration of the loop of the function that was called
LoopStep ==
    \/ FcfsStep
    \/ SjfIdle
    \/ SjfRun
    \/ PriorityIdle
    \/ PriorityRun
    \/ RrIdle
    \/ RrSlice

\* the return of the function that was called
ReturnStep ==
    \/ FcfsReturn
    \/ SjfReturn
    \/ PriorityReturn
    \/ RrReturn

\* C31: on an empty process list each of the four functions goes from its prologue
\* straight to its return, no iteration of its loop being possible and roundRobin's break
\* not being taken, and returns an empty timeline and empty results, priorityScheduling
\* with starvationRisk = false
C31_EmptyList ==
    Len(processes) = 0 =>
        /\ pc # "break"
        /\ pc = "run" => /\ ~ENABLED LoopStep
                         /\ ENABLED ReturnStep
                         /\ gantt = <<>> /\ currentTime = 0
        /\ Returned =>
            /\ output.gantt = <<>>
            /\ output.results = <<>>
            /\ algorithm = "priority" =>
                    /\ "starvationRisk" \in DOMAIN output
                    /\ output.starvationRisk = FALSE

\* priorityScheduling has returned from a call on the empty list
C31_Witness ==
    /\ Len(processes) = 0
    /\ Returned
    /\ algorithm = "priority"

\* ---------------------------------------------------------------- C32
\* C32: a result that is displayed (not null, in an App whose render has not thrown) was
\* computed from the algorithm now selected, the process list now in the table and the
\* quantum now set: the table is one the App computes a result from (validate finds no
\* error in it), and the result is what runAlgorithm gives for the three
C32_ResultIsCurrent ==
    mounted /\ result # Null =>
        /\ Len(Validate(appProcesses)) = 0
        /\ result = RunAlgorithm(appAlgorithm, appProcesses, appQuantum)

\* ---------------------------------------------------------------- C33
\* the lists of the App: the rows of the table, and the list the pending timer will hand
\* to the algorithm
AppLists == {appProcesses} \cup (IF timer # Undefined THEN {timer.processes} ELSE {})

\* C33: whatever rows are added, removed and updated, the table and the process list
\* handed to the algorithms are never empty and hold no id twice
C33_NonEmptyDistinctIds ==
    \A ps \in AppLists :
        /\ Len(ps) >= 1
        /\ \A i, j \in 1..Len(ps) : i # j => ps[i].id # ps[j].id

\* a run is pending on a list from which a default row was removed and to which a row
\* was added, and the table has since been brought down to one row
C33_Witness ==
    /\ timer # Undefined
    /\ \E i \in 1..Len(timer.processes) : timer.processes[i].id > Len(DefaultRows)
    /\ \E id \in 1..Len(DefaultRows) :
            \A i \in 1..Len(timer.processes) : timer.processes[i].id # id
    /\ Len(appProcesses) = 1
    /\ edits > 1

\* ---------------------------------------------------------------- C34
\* C34: whatever the quantum's minus button, plus button and number field are used for,
\* the quantum of the App, and the quantum a pending run will pass to roundRobin, is >= 1
C34_QuantumAtLeastOne ==
    /\ appQuantum >= 1
    /\ timer # Undefined => timer.quantum >= 1

\* a run of roundRobin is pending with the quantum 1, the lower limit, which the minus
\* button or the entry of 0, of -1 or of nothing has left, and the plus button has since
\* brought the App's quantum up to MaxAppQuantum
C34_Witness ==
    /\ timer # Undefined
    /\ timer.algorithm = "rr"
    /\ timer.quantum = 1
    /\ appQuantum = MaxAppQuantum

\* ---------------------------------------------------------------- C35
\* roundRobin has left its while loop: through the loop test, through the break, or it has
\* returned
RrLoopLeft ==
    /\ algorithm = "rr"
    /\ \/ pc = "run" /\ ~RrLoopTest(queue, remaining, enqueued)
       \/ pc = "break"
       \/ pc = "done"

\* C35: roundRobin never takes the break of its idle branch, and when its loop is left
\* every process has remaining time 0 and a finish time, so that no result is built from
\* the `?? currentTime` fallback
C35_RrLoopExit ==
    /\ algorithm = "rr" => pc # "break"
    /\ RrLoopLeft =>
        \A i \in 1..Len(remaining) :
            /\ remaining[i].remainingTime = 0
            /\ remaining[i].id \in DOMAIN finishTime
            /\ RrFinish(finishTime, remaining[i].id, currentTime) = finishTime[remaining[i].id]

\* roundRobin has returned from a call in which the queue ran empty while a process was
\* still to arrive (the idle branch was taken), and in which a process was preempted
C35_Witness ==
    /\ Returned
    /\ algorithm = "rr"
    /\ \E k \in 1..Len(gantt) - 1 : gantt[k].end < gantt[k + 1].start
    /\ \E k \in 1..Len(gantt) - 1 : gantt[k].pid = gantt[k + 1].pid

====
